---- MODULE Spec2Model ----
(***************************************************************************)
(* Low-power mode entry of stm32f1xx-hal (src/src/sleep.rs): the           *)
(* SleepModeBuilder, the registers it writes and the trace of its          *)
(* register accesses, together with the one-shot enter_sleep_mode form     *)
(* that examples/sleep.rs calls.                                           *)
(***************************************************************************)
EXTENDS Integers, Sequences, FiniteSets, TLC

VARIABLES
    regs,             \* the peripheral registers the controller touches
    builder,          \* the SleepModeBuilder in construction, or None
    pc,               \* "main" | "built" | "waiting" | "returned" | "panicked"
    trace,            \* register accesses of the current entry call, in order
    regs0,            \* history: the registers when the current call started
    steps,            \* history: the optional builder steps chained so far
    form,             \* history: form of the last entry call: "none" | "builder" | "monolithic"
    woke,             \* history: how the last wait ended: "none" | "returned" | "reset"
    calls,            \* entry calls made since the last reset
    signals,          \* what the hardware has signalled to the waiting CPU
    overflow_checks   \* build profile: TRUE = overflow-checks on (dev), FALSE = release

vars == <<regs, builder, pc, trace, regs0, steps, form, woke, calls, signals,
          overflow_checks>>

-----------------------------------------------------------------------------
(* Bounds                                                                  *)

\* entry calls made between two resets
MaxCalls == 2
\* times enable_wakeup_pin may be chained on one builder (it borrows nothing for 'a)
MaxPinCalls == 1

-----------------------------------------------------------------------------
(* Types                                                                   *)

SleepMode == {"Sleep", "StopRegulatorOn", "StopRegulatorLP", "Standby"}

SleepModeEntry == {"WFI", "WFE"}

Interrupt == {"RTC", "RTCALARM", "EXTI0"}

DbgBits == {"dbg_sleep", "dbg_stop", "dbg_standby"}

\* no SleepModeBuilder alive
None == [sleep_mode |-> "None", sleep_mode_entry |-> "None",
         rtc |-> FALSE, wakeup_alarm |-> <<>>]

\* Option<u32>: None is the empty tuple, Some(secs) is the u32 secs
NoAlarm == <<>>

\* A u32 is kept as its two 16-bit halves <<high, low>>.
Half == 2 ^ 16

U32Max == <<Half - 1, Half - 1>>

\* Option<u32> values a caller passes as secs
AlarmSecs == {<<0, 1>>, <<Half - 1, 0>>}

\* values of the RTC seconds counter that rtc.seconds() reads during a boot
RtcCounts == {<<0, Half - 1>>, U32Max}

\* now + secs on u32: the wrapped sum and whether it overflowed
Add32(a, b) ==
    LET lo == a[2] + b[2]
        hi == a[1] + b[1] + (lo \div Half)
    IN  [value |-> <<hi % Half, lo % Half>>, overflow |-> hi >= Half]

-----------------------------------------------------------------------------
(* Registers                                                               *)

\* one register access: <<register, field, value>>
W(reg, fld, val) == <<reg, fld, val>>

ResetRegs ==
    [sleepdeep |-> FALSE, pdds |-> FALSE, lpds |-> FALSE,
     sbf |-> FALSE, wuf |-> FALSE, ewup |-> FALSE, pwren |-> FALSE,
     nvic_en |-> {}, nvic_pend |-> {},
     imr |-> {}, emr |-> {}, rtsr |-> {}, pr |-> {},
     dbg |-> {},
     cnt |-> <<0, 0>>, alr |-> U32Max, alrf |-> FALSE]

\* faulty variant: the EXTI mask registers are written, not read-modify-written
Apply_MaskOverwrite(r, w) ==
    LET reg == w[1]
        fld == w[2]
        val == w[3]
    IN  CASE reg = "SCB_SCR"     -> [r EXCEPT !.sleepdeep = (val = 1)]
          [] reg = "PWR_CR" /\ fld = "PDDS" -> [r EXCEPT !.pdds = (val = 1)]
          [] reg = "PWR_CR" /\ fld = "LPDS" -> [r EXCEPT !.lpds = (val = 1)]
          [] reg = "PWR_CR" /\ fld = "CSBF" -> [r EXCEPT !.sbf = IF val = 1 THEN FALSE ELSE @]
          [] reg = "PWR_CR" /\ fld = "CWUF" -> [r EXCEPT !.wuf = IF val = 1 THEN FALSE ELSE @]
          [] reg = "PWR_CSR"     -> [r EXCEPT !.ewup = (val = 1)]
          [] reg = "RCC_APB1ENR" -> [r EXCEPT !.pwren = (val = 1)]
          [] reg = "NVIC_ISER"   -> [r EXCEPT !.nvic_en = @ \cup {fld}]
          [] reg = "NVIC_ICPR"   -> [r EXCEPT !.nvic_pend = @ \ {fld}]
          [] reg = "EXTI_IMR"    -> [r EXCEPT !.imr = {fld}]
          [] reg = "EXTI_EMR"    -> [r EXCEPT !.emr = {fld}]
          [] reg = "EXTI_RTSR"   -> [r EXCEPT !.rtsr = @ \cup {fld}]
          [] reg = "EXTI_PR"     -> [r EXCEPT !.pr = @ \ {fld}]
          [] reg = "DBGMCU_CR"   -> [r EXCEPT !.dbg = @ \cup {fld}]
          [] reg = "RTC_CRL"     -> [r EXCEPT !.alrf = (val = 1)]
          [] reg = "RTC_ALRH"    -> [r EXCEPT !.alr = <<val, @[2]>>]
          [] reg = "RTC_ALRL"    -> [r EXCEPT !.alr = <<@[1], val>>]
          [] OTHER               -> r

\* the effect of one access on the registers
Apply(r, w) ==
    LET reg == w[1]
        fld == w[2]
        val == w[3]
    IN  CASE reg = "SCB_SCR"     -> [r EXCEPT !.sleepdeep = (val = 1)]
          [] reg = "PWR_CR" /\ fld = "PDDS" -> [r EXCEPT !.pdds = (val = 1)]
          [] reg = "PWR_CR" /\ fld = "LPDS" -> [r EXCEPT !.lpds = (val = 1)]
          [] reg = "PWR_CR" /\ fld = "CSBF" -> [r EXCEPT !.sbf = IF val = 1 THEN FALSE ELSE @]
          [] reg = "PWR_CR" /\ fld = "CWUF" -> [r EXCEPT !.wuf = IF val = 1 THEN FALSE ELSE @]
          [] reg = "PWR_CSR"     -> [r EXCEPT !.ewup = (val = 1)]
          [] reg = "RCC_APB1ENR" -> [r EXCEPT !.pwren = (val = 1)]
          [] reg = "NVIC_ISER"   -> [r EXCEPT !.nvic_en = @ \cup {fld}]
          [] reg = "NVIC_ICPR"   -> [r EXCEPT !.nvic_pend = @ \ {fld}]
          [] reg = "EXTI_IMR"    -> [r EXCEPT !.imr = @ \cup {fld}]
          [] reg = "EXTI_EMR"    -> [r EXCEPT !.emr = @ \cup {fld}]
          [] reg = "EXTI_RTSR"   -> [r EXCEPT !.rtsr = @ \cup {fld}]
          [] reg = "EXTI_PR"     -> [r EXCEPT !.pr = @ \ {fld}]
          [] reg = "DBGMCU_CR"   -> [r EXCEPT !.dbg = @ \cup {fld}]
          [] reg = "RTC_CRL"     -> [r EXCEPT !.alrf = (val = 1)]
          [] reg = "RTC_ALRH"    -> [r EXCEPT !.alr = <<val, @[2]>>]
          [] reg = "RTC_ALRL"    -> [r EXCEPT !.alr = <<@[1], val>>]
          [] OTHER               -> r

RECURSIVE ApplyAll(_, _)
ApplyAll(r, ws) ==
    IF ws = <<>> THEN r ELSE ApplyAll(Apply(r, Head(ws)), Tail(ws))

-----------------------------------------------------------------------------
(* SleepModeBuilder                                                        *)

\* faulty variant: the catch-all arm answers true
is_sleep_or_stop_mode_CatchAllTrue(sleep_mode) ==
    CASE sleep_mode = "Sleep"           -> TRUE
      [] sleep_mode = "StopRegulatorOn" -> TRUE
      [] sleep_mode = "StopRegulatorLP" -> TRUE
      [] OTHER                          -> TRUE

is_sleep_or_stop_mode(sleep_mode) ==
    CASE sleep_mode = "Sleep"           -> TRUE
      [] sleep_mode = "StopRegulatorOn" -> TRUE
      [] sleep_mode = "StopRegulatorLP" -> TRUE
      [] OTHER                          -> FALSE

\* faulty variant: the two arms of the SLEEPDEEP match swapped
sleepdeep_writes_Swapped(sleep_mode) ==
    CASE sleep_mode = "Sleep" -> <<W("SCB_SCR", "SLEEPDEEP", 1)>>
      [] OTHER                -> <<W("SCB_SCR", "SLEEPDEEP", 0)>>

\* new: SLEEPDEEP in the System Control Register
sleepdeep_writes(sleep_mode) ==
    CASE sleep_mode = "Sleep" -> <<W("SCB_SCR", "SLEEPDEEP", 0)>>
      [] OTHER                -> <<W("SCB_SCR", "SLEEPDEEP", 1)>>

\* faulty variant: the Sleep arm clears LPDS along with PDDS
pdds_lpds_writes_SleepClearsLpds(sleep_mode) ==
    CASE sleep_mode = "Sleep" ->
            <<W("PWR_CR", "PDDS", 0), W("PWR_CR", "LPDS", 0)>>
      [] sleep_mode = "StopRegulatorOn" ->
            <<W("PWR_CR", "PDDS", 0), W("PWR_CR", "LPDS", 0)>>
      [] sleep_mode = "StopRegulatorLP" ->
            <<W("PWR_CR", "PDDS", 0), W("PWR_CR", "LPDS", 1)>>
      [] sleep_mode = "Standby" ->
            <<W("PWR_CR", "PDDS", 1)>>

\* faulty variant: StopRegulatorOn forgets to clear LPDS
pdds_lpds_writes_NoLpdsClear(sleep_mode) ==
    CASE sleep_mode = "Sleep" ->
            <<W("PWR_CR", "PDDS", 0)>>
      [] sleep_mode = "StopRegulatorOn" ->
            <<W("PWR_CR", "PDDS", 0)>>
      [] sleep_mode = "StopRegulatorLP" ->
            <<W("PWR_CR", "PDDS", 0), W("PWR_CR", "LPDS", 1)>>
      [] sleep_mode = "Standby" ->
            <<W("PWR_CR", "PDDS", 1)>>

\* new: PDDS and LPDS in the Power Control Register
pdds_lpds_writes(sleep_mode) ==
    CASE sleep_mode = "Sleep" ->
            <<W("PWR_CR", "PDDS", 0)>>
      [] sleep_mode = "StopRegulatorOn" ->
            <<W("PWR_CR", "PDDS", 0), W("PWR_CR", "LPDS", 0)>>
      [] sleep_mode = "StopRegulatorLP" ->
            <<W("PWR_CR", "PDDS", 0), W("PWR_CR", "LPDS", 1)>>
      [] sleep_mode = "Standby" ->
            <<W("PWR_CR", "PDDS", 1)>>

\* faulty variant: the wakeup flag is looked at only when the standby flag is clear
clear_flags_writes_ElseIf(r) ==
    IF r.sbf THEN <<W("PWR_CR", "CSBF", 1)>>
    ELSE IF r.wuf THEN <<W("PWR_CR", "CWUF", 1)>> ELSE <<>>

\* new: clear the standby flag and the wakeup flag when they are set
clear_flags_writes(r) ==
    (IF r.sbf THEN <<W("PWR_CR", "CSBF", 1)>> ELSE <<>>)
    \o (IF r.wuf THEN <<W("PWR_CR", "CWUF", 1)>> ELSE <<>>)

\* faulty variant: construction also switches the pin wake-up off
new_writes_DisarmsPin(sleep_mode, r) ==
    sleepdeep_writes(sleep_mode) \o pdds_lpds_writes(sleep_mode) \o clear_flags_writes(r)
    \o << W("PWR_CSR", "EWUP", 0) >>

new_writes(sleep_mode, r) ==
    sleepdeep_writes(sleep_mode) \o pdds_lpds_writes(sleep_mode) \o clear_flags_writes(r)

\* faulty variant: the two arms of the entry match swapped
mask_write_Swapped(sleep_mode_entry, fld) ==
    CASE sleep_mode_entry = "WFI" -> W("EXTI_EMR", fld, 1)
      [] sleep_mode_entry = "WFE" -> W("EXTI_IMR", fld, 1)

\* IMR for WFI, EMR for WFE
mask_write(sleep_mode_entry, fld) ==
    CASE sleep_mode_entry = "WFI" -> W("EXTI_IMR", fld, 1)
      [] sleep_mode_entry = "WFE" -> W("EXTI_EMR", fld, 1)

enable_wakeup_alarm_writes(sleep_mode, sleep_mode_entry) ==
    IF is_sleep_or_stop_mode(sleep_mode)
    THEN << W("NVIC_ISER", "RTC", 1), W("NVIC_ICPR", "RTC", 1),
            W("NVIC_ISER", "RTCALARM", 1), W("NVIC_ICPR", "RTCALARM", 1),
            mask_write(sleep_mode_entry, "MR17"),
            W("EXTI_RTSR", "TR17", 1),
            W("EXTI_PR", "PR17", 1) >>
    ELSE <<>>

\* faulty variant: EWUP is written before the power interface clock is enabled
enable_wakeup_pin_writes_EwupFirst(sleep_mode, sleep_mode_entry) ==
    << W("PWR_CSR", "EWUP", 1), W("RCC_APB1ENR", "PWREN", 1) >>
    \o (IF is_sleep_or_stop_mode(sleep_mode)
        THEN << W("NVIC_ISER", "EXTI0", 1), W("NVIC_ICPR", "EXTI0", 1),
                mask_write(sleep_mode_entry, "MR0"),
                W("EXTI_RTSR", "TR0", 1),
                W("EXTI_PR", "PR0", 1) >>
        ELSE <<>>)

\* faulty variant: line 0 goes to the interrupt mask whatever the entry
enable_wakeup_pin_writes_AlwaysImr(sleep_mode, sleep_mode_entry) ==
    << W("RCC_APB1ENR", "PWREN", 1), W("PWR_CSR", "EWUP", 1) >>
    \o (IF is_sleep_or_stop_mode(sleep_mode)
        THEN << W("NVIC_ISER", "EXTI0", 1), W("NVIC_ICPR", "EXTI0", 1),
                W("EXTI_IMR", "MR0", 1),
                W("EXTI_RTSR", "TR0", 1),
                W("EXTI_PR", "PR0", 1) >>
        ELSE <<>>)

\* faulty variant: EWUP is set inside the sleep-or-stop gate
enable_wakeup_pin_writes_GatedEwup(sleep_mode, sleep_mode_entry) ==
    << W("RCC_APB1ENR", "PWREN", 1) >>
    \o (IF is_sleep_or_stop_mode(sleep_mode)
        THEN << W("PWR_CSR", "EWUP", 1),
                W("NVIC_ISER", "EXTI0", 1), W("NVIC_ICPR", "EXTI0", 1),
                mask_write(sleep_mode_entry, "MR0"),
                W("EXTI_RTSR", "TR0", 1),
                W("EXTI_PR", "PR0", 1) >>
        ELSE <<>>)

enable_wakeup_pin_writes(sleep_mode, sleep_mode_entry) ==
    << W("RCC_APB1ENR", "PWREN", 1), W("PWR_CSR", "EWUP", 1) >>
    \o (IF is_sleep_or_stop_mode(sleep_mode)
        THEN << W("NVIC_ISER", "EXTI0", 1), W("NVIC_ICPR", "EXTI0", 1),
                mask_write(sleep_mode_entry, "MR0"),
                W("EXTI_RTSR", "TR0", 1),
                W("EXTI_PR", "PR0", 1) >>
        ELSE <<>>)

\* faulty variant: dbg_standby is left out
enable_debug_writes_NoStandby ==
    << W("DBGMCU_CR", "dbg_sleep", 1),
       W("DBGMCU_CR", "dbg_stop", 1) >>

enable_debug_writes ==
    << W("DBGMCU_CR", "dbg_sleep", 1),
       W("DBGMCU_CR", "dbg_stop", 1),
       W("DBGMCU_CR", "dbg_standby", 1) >>

\* enter: `now + secs` panics when it overflows in a build with overflow checks
enter_panics(b, r, checks) ==
    /\ b.wakeup_alarm # NoAlarm
    /\ b.rtc
    /\ checks
    /\ Add32(r.cnt, b.wakeup_alarm).overflow

\* enter: the RTC accesses made when an alarm duration was requested
enter_rtc_writes(b, r, checks) ==
    IF b.wakeup_alarm # NoAlarm /\ b.rtc
    THEN LET now == r.cnt
             sum == Add32(now, b.wakeup_alarm)
         IN  << W("RTC_CNTH", "read", now[1]), W("RTC_CNTL", "read", now[2]),
                W("RTC_CRL", "ALRF", 0) >>
             \o (IF enter_panics(b, r, checks)
                 THEN <<>>
                 ELSE << W("RTC_ALRH", "ALRH", sum.value[1]),
                         W("RTC_ALRL", "ALRL", sum.value[2]) >>)
    ELSE <<>>

\* faulty variant: the two arms of the wait match swapped
wait_write_Swapped(sleep_mode_entry) ==
    CASE sleep_mode_entry = "WFI" -> W("CPU", "WFE", 1)
      [] sleep_mode_entry = "WFE" -> W("CPU", "WFI", 1)

wait_write(sleep_mode_entry) ==
    CASE sleep_mode_entry = "WFI" -> W("CPU", "WFI", 1)
      [] sleep_mode_entry = "WFE" -> W("CPU", "WFE", 1)

enter_writes(b, r, checks) ==
    enter_rtc_writes(b, r, checks)
    \o (IF enter_panics(b, r, checks) THEN <<>> ELSE <<wait_write(b.sleep_mode_entry)>>)

Count(s, x) == Cardinality({i \in 1..Len(s) : s[i] = x})

-----------------------------------------------------------------------------
(* The one-shot form enter_sleep_mode (called by examples/sleep.rs), after   *)
(* the ordered protocol of its specification, steps 1 to 7.                  *)

\* steps 1 and 2: deep-sleep bit, then power-down and regulator bits
protocol_mode_writes(sleep_mode) ==
    << W("SCB_SCR", "SLEEPDEEP", IF sleep_mode = "Sleep" THEN 0 ELSE 1) >>
    \o (IF sleep_mode = "Standby"
        THEN << W("PWR_CR", "PDDS", 1) >>
        ELSE << W("PWR_CR", "PDDS", 0) >>
             \o (IF sleep_mode = "StopRegulatorOn" THEN << W("PWR_CR", "LPDS", 0) >>
                 ELSE IF sleep_mode = "StopRegulatorLP" THEN << W("PWR_CR", "LPDS", 1) >>
                 ELSE <<>>))

\* step 3: read the residue flags and clear those that are set
protocol_residue_writes(r) ==
    (IF r.sbf THEN << W("PWR_CR", "CSBF", 1) >> ELSE <<>>)
    \o (IF r.wuf THEN << W("PWR_CR", "CWUF", 1) >> ELSE <<>>)

\* steps 4 and 5: vector(s) enabled and unpended, mask bit, rising edge, pending clear
protocol_line_writes(sleep_mode_entry, vectors, line) ==
    LET RECURSIVE Vec(_)
        Vec(vs) == IF vs = <<>> THEN <<>>
                   ELSE << W("NVIC_ISER", Head(vs), 1), W("NVIC_ICPR", Head(vs), 1) >>
                        \o Vec(Tail(vs))
    IN  Vec(vectors)
        \o << W(IF sleep_mode_entry = "WFI" THEN "EXTI_IMR" ELSE "EXTI_EMR", "MR" \o line, 1),
              W("EXTI_RTSR", "TR" \o line, 1),
              W("EXTI_PR", "PR" \o line, 1) >>

enter_sleep_mode_writes(sleep_mode, sleep_mode_entry, alarm, pin, debug, r) ==
    LET sleep_or_stop == sleep_mode \in {"Sleep", "StopRegulatorOn", "StopRegulatorLP"}
    IN  protocol_mode_writes(sleep_mode)
        \o protocol_residue_writes(r)
        \o (IF alarm /\ sleep_or_stop
            THEN protocol_line_writes(sleep_mode_entry, <<"RTC", "RTCALARM">>, "17")
            ELSE <<>>)
        \o (IF pin
            THEN << W("RCC_APB1ENR", "PWREN", 1), W("PWR_CSR", "EWUP", 1) >>
                 \o (IF sleep_or_stop
                     THEN protocol_line_writes(sleep_mode_entry, <<"EXTI0">>, "0")
                     ELSE <<>>)
            ELSE <<>>)
        \o (IF debug
            THEN << W("DBGMCU_CR", "dbg_sleep", 1), W("DBGMCU_CR", "dbg_stop", 1),
                    W("DBGMCU_CR", "dbg_standby", 1) >>
            ELSE <<>>)
        \o << W("CPU", sleep_mode_entry, 1) >>

-----------------------------------------------------------------------------
(* Actions                                                                 *)

CanCall == pc \in {"main", "returned"} /\ calls < MaxCalls

new(sleep_mode, sleep_mode_entry) ==
    /\ CanCall
    /\ LET ws == new_writes(sleep_mode, regs)
       IN  /\ regs' = ApplyAll(regs, ws)
           /\ trace' = ws
    /\ builder' = [sleep_mode |-> sleep_mode, sleep_mode_entry |-> sleep_mode_entry,
                   rtc |-> FALSE, wakeup_alarm |-> NoAlarm]
    /\ regs0' = regs
    /\ steps' = <<>>
    /\ form' = "builder"
    /\ woke' = "none"
    /\ calls' = calls + 1
    /\ pc' = "built"
    /\ UNCHANGED <<signals, overflow_checks>>

\* rtc is borrowed for the builder's lifetime 'a: the step is chained at most once
enable_wakeup_alarm(secs) ==
    /\ pc = "built"
    /\ Count(steps, "alarm") = 0
    /\ LET ws == enable_wakeup_alarm_writes(builder.sleep_mode, builder.sleep_mode_entry)
       IN  /\ regs' = ApplyAll(regs, ws)
           /\ trace' = trace \o ws
    /\ builder' = [builder EXCEPT !.wakeup_alarm = secs, !.rtc = TRUE]
    /\ steps' = Append(steps, "alarm")
    /\ UNCHANGED <<pc, regs0, form, woke, calls, signals, overflow_checks>>

enable_wakeup_pin ==
    /\ pc = "built"
    /\ Count(steps, "pin") < MaxPinCalls
    /\ LET ws == enable_wakeup_pin_writes(builder.sleep_mode, builder.sleep_mode_entry)
       IN  /\ regs' = ApplyAll(regs, ws)
           /\ trace' = trace \o ws
    /\ steps' = Append(steps, "pin")
    /\ UNCHANGED <<builder, pc, regs0, form, woke, calls, signals, overflow_checks>>

\* dbgmcu is borrowed for the builder's lifetime 'a: the step is chained at most once
enable_debug ==
    /\ pc = "built"
    /\ Count(steps, "debug") = 0
    /\ LET ws == enable_debug_writes
       IN  /\ regs' = ApplyAll(regs, ws)
           /\ trace' = trace \o ws
    /\ steps' = Append(steps, "debug")
    /\ UNCHANGED <<builder, pc, regs0, form, woke, calls, signals, overflow_checks>>

enter ==
    /\ pc = "built"
    /\ LET ws == enter_writes(builder, regs, overflow_checks)
       IN  /\ regs' = ApplyAll(regs, ws)
           /\ trace' = trace \o ws
    /\ pc' = IF enter_panics(builder, regs, overflow_checks) THEN "panicked" ELSE "waiting"
    /\ UNCHANGED <<builder, regs0, steps, form, woke, calls, signals, overflow_checks>>

enter_sleep_mode(sleep_mode, sleep_mode_entry, alarm, pin, debug) ==
    /\ CanCall
    /\ LET ws == enter_sleep_mode_writes(sleep_mode, sleep_mode_entry, alarm, pin, debug, regs)
       IN  /\ regs' = ApplyAll(regs, ws)
           /\ trace' = ws
    /\ regs0' = regs
    /\ steps' = (IF alarm THEN <<"alarm">> ELSE <<>>)
                \o (IF pin THEN <<"pin">> ELSE <<>>)
                \o (IF debug THEN <<"debug">> ELSE <<>>)
    /\ form' = "monolithic"
    /\ woke' = "none"
    /\ calls' = calls + 1
    /\ pc' = "waiting"
    /\ UNCHANGED <<builder, signals, overflow_checks>>

\* the wait instruction the CPU is executing: the last access of the call
issued == trace[Len(trace)][2]

\* WFI waits for an interrupt, WFE waits for an event
wait_ends(instr, sigs) ==
    CASE instr = "WFI" -> "interrupt" \in sigs
      [] instr = "WFE" -> "event" \in sigs

\* the hardware raises an unmasked interrupt while the CPU waits
raise_interrupt ==
    /\ pc = "waiting"
    /\ "interrupt" \notin signals
    /\ signals' = signals \cup {"interrupt"}
    /\ UNCHANGED <<regs, builder, pc, trace, regs0, steps, form, woke, calls,
                   overflow_checks>>

\* the hardware latches an event while the CPU waits
signal_event ==
    /\ pc = "waiting"
    /\ "event" \notin signals
    /\ signals' = signals \cup {"event"}
    /\ UNCHANGED <<regs, builder, pc, trace, regs0, steps, form, woke, calls,
                   overflow_checks>>

\* The wait ends: Standby (SLEEPDEEP and PDDS set) wakes through a reset of the
\* MCU, Sleep and Stop continue after the wait instruction.
wake ==
    /\ pc = "waiting"
    /\ wait_ends(issued, signals)
    /\ IF regs.sleepdeep /\ regs.pdds
       THEN /\ regs' = [ResetRegs EXCEPT !.sbf = TRUE, !.wuf = TRUE,
                                         !.cnt = regs.cnt, !.alr = regs.alr,
                                         !.alrf = regs.alrf]
            /\ pc' = "main"
            /\ woke' = "reset"
            /\ calls' = 0
       ELSE /\ pc' = "returned"
            /\ woke' = "returned"
            /\ UNCHANGED <<regs, calls>>
    /\ builder' = None
    /\ trace' = <<>>
    /\ steps' = <<>>
    /\ regs0' = regs'
    /\ signals' = {}
    /\ UNCHANGED <<form, overflow_checks>>

\* After a reset: cold boot or wake-up from Standby (SBF, WUF), with or without
\* wake events (RTC alarm, PA0 edge) already latched by the hardware.
Init ==
    /\ \E sbf \in BOOLEAN, wuf \in BOOLEAN, latched \in BOOLEAN, cnt \in RtcCounts :
          regs = [ResetRegs EXCEPT !.sbf = sbf, !.wuf = wuf,
                                   !.alrf = latched,
                                   !.nvic_pend = IF latched THEN Interrupt ELSE {},
                                   !.pr = IF latched THEN {"PR0", "PR17"} ELSE {},
                                   !.cnt = cnt]
    /\ builder = None
    /\ pc = "main"
    /\ trace = <<>>
    /\ regs0 = regs
    /\ steps = <<>>
    /\ form = "none"
    /\ woke = "none"
    /\ calls = 0
    /\ signals = {}
    /\ overflow_checks \in BOOLEAN

Next ==
    \/ \E m \in SleepMode, e \in SleepModeEntry : new(m, e)
    \/ \E secs \in AlarmSecs : enable_wakeup_alarm(secs)
    \/ enable_wakeup_pin
    \/ enable_debug
    \/ enter
    \/ \E m \in SleepMode, e \in SleepModeEntry, alarm \in BOOLEAN, pin \in BOOLEAN,
          debug \in BOOLEAN : enter_sleep_mode(m, e, alarm, pin, debug)
    \/ raise_interrupt
    \/ signal_event
    \/ wake

Spec == Init /\ [][Next]_vars

-----------------------------------------------------------------------------
(* Helpers of the properties                                               *)

InSeq(x, s) == \E i \in 1..Len(s) : s[i] = x

InBuilderCall == form = "builder" /\ pc \in {"built", "waiting", "panicked"}

SleepOrStop == {"Sleep", "StopRegulatorOn", "StopRegulatorLP"}

IsModeBitWrite(w) ==
    \/ w[1] = "SCB_SCR"
    \/ w[1] = "PWR_CR" /\ w[2] \in {"PDDS", "LPDS"}

IsFlagClearWrite(w) == w[1] = "PWR_CR" /\ w[2] \in {"CSBF", "CWUF"}

IsNvicExtiWrite(w) ==
    w[1] \in {"NVIC_ISER", "NVIC_ICPR", "EXTI_IMR", "EXTI_EMR", "EXTI_RTSR", "EXTI_PR"}

IsArmingWrite(w) == IsNvicExtiWrite(w) \/ w[1] = "PWR_CSR"

IsWait(w) == w[1] = "CPU"

\* the accesses a builder step has just appended to the trace
Appended == SubSeq(trace', Len(trace) + 1, Len(trace'))

\* the builder step `step` is taken in this transition
Chains(step) == pc = "built" /\ steps' = Append(steps, step)

-----------------------------------------------------------------------------
(* C1: after SleepModeBuilder::new the mode bits match the mode table, for   *)
(* every mode and every prior value of the bits: SLEEPDEEP is clear for      *)
(* Sleep and set otherwise, PDDS is set for Standby only, LPDS is clear for  *)
(* StopRegulatorOn and set for StopRegulatorLP, and is_sleep_or_stop_mode is *)
(* true exactly for Sleep, StopRegulatorOn and StopRegulatorLP.              *)
C1_ModeTable ==
    InBuilderCall =>
        LET m == builder.sleep_mode
        IN  /\ regs.sleepdeep = (m # "Sleep")
            /\ regs.pdds = (m = "Standby")
            /\ (m = "StopRegulatorOn" => ~regs.lpds)
            /\ (m = "StopRegulatorLP" => regs.lpds)
            /\ is_sleep_or_stop_mode(m) = (m \in SleepOrStop)

\* new(StopRegulatorOn) over the bits a StopRegulatorLP call left behind
C1_Witness ==
    /\ InBuilderCall
    /\ builder.sleep_mode = "StopRegulatorOn"
    /\ regs0.sleepdeep /\ regs0.lpds
    /\ ~regs.lpds /\ ~regs.pdds /\ regs.sleepdeep

(* C2: whatever SBF and WUF were, an entry call leaves both clear, and in   *)
(* the trace the CSBF and CWUF writes come after every mode-bit write and   *)
(* before every wake-source arming write, whichever optional steps are      *)
(* chained.                                                                  *)
C2_FlagsClearedBeforeArming ==
    InBuilderCall =>
        /\ ~regs.sbf
        /\ ~regs.wuf
        /\ regs0.sbf => InSeq(W("PWR_CR", "CSBF", 1), trace)
        /\ regs0.wuf => InSeq(W("PWR_CR", "CWUF", 1), trace)
        /\ \A i \in 1..Len(trace) :
              IsFlagClearWrite(trace[i]) =>
                  /\ \A j \in (i + 1)..Len(trace) : ~IsModeBitWrite(trace[j])
                  /\ \A j \in 1..(i - 1) : ~IsArmingWrite(trace[j])

\* both flags were set, and both wake sources have been armed after new
C2_Witness ==
    /\ InBuilderCall
    /\ regs0.sbf /\ regs0.wuf
    /\ builder.sleep_mode \in SleepOrStop
    /\ InSeq("alarm", steps) /\ InSeq("pin", steps)
    /\ ~regs.sbf /\ ~regs.wuf

(* C3, as stated: in Standby, enable_wakeup_alarm and enable_wakeup_pin     *)
(* each set an always-on enable bit and write no NVIC or EXTI register.     *)
C3_Original ==
    [][ (pc = "built" /\ builder.sleep_mode = "Standby"
         /\ (Chains("alarm") \/ Chains("pin")))
        => /\ \E i \in 1..Len(Appended) :
                  Appended[i][3] = 1 /\ ~IsNvicExtiWrite(Appended[i])
           /\ \A i \in 1..Len(Appended) : ~IsNvicExtiWrite(Appended[i]) ]_vars

(* C3, amended: in Standby, enable_wakeup_pin writes PWREN and EWUP and     *)
(* nothing else, enable_wakeup_alarm writes no register at all (it only     *)
(* records the duration and the Rtc in the builder), and neither touches    *)
(* the NVIC or the EXTI registers, for either entry and any order.          *)
C3_StandbyNoInterruptWiring ==
    [][ (pc = "built" /\ builder.sleep_mode = "Standby")
        => /\ Chains("pin") =>
                 /\ Appended = << W("RCC_APB1ENR", "PWREN", 1), W("PWR_CSR", "EWUP", 1) >>
                 /\ regs' = [regs EXCEPT !.pwren = TRUE, !.ewup = TRUE]
           /\ Chains("alarm") =>
                 /\ Appended = <<>>
                 /\ regs' = regs
                 /\ builder'.wakeup_alarm # NoAlarm /\ builder'.rtc ]_vars

\* Standby with the pin and then the alarm enabled
C3_Witness ==
    /\ pc = "built"
    /\ builder.sleep_mode = "Standby"
    /\ steps = <<"pin", "alarm">>
    /\ regs.ewup
    /\ regs.nvic_en = {} /\ regs.imr = {} /\ regs.emr = {} /\ regs.rtsr = {}
    /\ regs.pr # {}

(* C4: in Sleep, StopRegulatorOn and StopRegulatorLP, enable_wakeup_alarm  *)
(* enables and unpends the vectors RTC and RTCALARM, sets the line-17 bit   *)
(* of IMR (WFI) or of EMR (WFE), sets the rising-edge bit of line 17 and    *)
(* clears the pending bit of line 17, and changes no other register bit.    *)
C4_AlarmSetsExactly ==
    [][ (pc = "built" /\ builder.sleep_mode \in SleepOrStop /\ Chains("alarm"))
        => LET wfi == builder.sleep_mode_entry = "WFI"
           IN  /\ regs' = [regs EXCEPT
                             !.nvic_en = @ \cup {"RTC", "RTCALARM"},
                             !.nvic_pend = @ \ {"RTC", "RTCALARM"},
                             !.imr = IF wfi THEN @ \cup {"MR17"} ELSE @,
                             !.emr = IF wfi THEN @ ELSE @ \cup {"MR17"},
                             !.rtsr = @ \cup {"TR17"},
                             !.pr = @ \ {"PR17"}]
               /\ Appended =
                     << W("NVIC_ISER", "RTC", 1), W("NVIC_ICPR", "RTC", 1),
                        W("NVIC_ISER", "RTCALARM", 1), W("NVIC_ICPR", "RTCALARM", 1),
                        W(IF wfi THEN "EXTI_IMR" ELSE "EXTI_EMR", "MR17", 1),
                        W("EXTI_RTSR", "TR17", 1),
                        W("EXTI_PR", "PR17", 1) >> ]_vars

\* a WFE Stop call that armed the alarm over latched pending bits
C4_Witness ==
    /\ pc = "built"
    /\ builder.sleep_mode = "StopRegulatorLP"
    /\ builder.sleep_mode_entry = "WFE"
    /\ steps = <<"alarm">>
    /\ regs0.nvic_pend = Interrupt /\ regs0.pr = {"PR0", "PR17"}
    /\ regs.nvic_en = {"RTC", "RTCALARM"} /\ regs.nvic_pend = {"EXTI0"}
    /\ regs.emr = {"MR17"} /\ regs.imr = {}
    /\ regs.rtsr = {"TR17"} /\ regs.pr = {"PR0"}

(* C5: enable_debug sets dbg_sleep, dbg_stop and dbg_standby in every mode  *)
(* and for either entry, before the wait instruction; a call that does not  *)
(* chain it leaves the three bits as they were.                             *)
C5_DebugRetention ==
    InBuilderCall =>
        IF InSeq("debug", steps)
        THEN /\ DbgBits \subseteq regs.dbg
             /\ \A i \in 1..Len(trace) :
                   trace[i][1] = "DBGMCU_CR" => \A j \in 1..i : ~IsWait(trace[j])
             /\ \A b \in DbgBits : InSeq(W("DBGMCU_CR", b, 1), trace)
        ELSE /\ regs.dbg = regs0.dbg
             /\ \A i \in 1..Len(trace) : trace[i][1] # "DBGMCU_CR"

\* a Standby call with debug retention that has reached its wait instruction
C5_Witness ==
    /\ form = "builder"
    /\ pc = "waiting"
    /\ builder.sleep_mode = "Standby"
    /\ builder.sleep_mode_entry = "WFE"
    /\ InSeq("debug", steps)
    /\ regs0.dbg = {}
    /\ regs.dbg = DbgBits

(* C6: once enter has run, every register write of the call precedes the    *)
(* wait instruction, and exactly one wait instruction has been issued, as   *)
(* the last action of the call.                                             *)
C6_Claim ==
    (form = "builder" /\ pc \in {"waiting", "panicked"}) =>
        /\ Len(trace) > 0
        /\ IsWait(trace[Len(trace)])
        /\ \A i \in 1..(Len(trace) - 1) : ~IsWait(trace[i])

(* C6, the part that holds: a call whose enter does not panic issues        *)
(* exactly one wait instruction, last; enter panics only when now + secs    *)
(* overflows in a build with overflow checks, and then issues none.         *)
C6_ExceptOverflow ==
    /\ (form = "builder" /\ pc = "waiting") =>
          /\ Len(trace) > 0
          /\ IsWait(trace[Len(trace)])
          /\ \A i \in 1..(Len(trace) - 1) : ~IsWait(trace[i])
    /\ pc = "panicked" =>
          /\ overflow_checks
          /\ Add32(regs0.cnt, builder.wakeup_alarm).overflow
          /\ \A i \in 1..Len(trace) : ~IsWait(trace[i])

IsRtcAccess(w) == w[1] \in {"RTC_CNTH", "RTC_CNTL", "RTC_CRL", "RTC_ALRH", "RTC_ALRL"}

IsNotRtcAccess(w) == ~IsRtcAccess(w)

IsEnterAccess(w) == IsRtcAccess(w) \/ IsWait(w)

\* the trace of the one-shot form for the parameters of the current builder call
OneShotTrace ==
    enter_sleep_mode_writes(builder.sleep_mode, builder.sleep_mode_entry,
                            InSeq("alarm", steps), InSeq("pin", steps),
                            InSeq("debug", steps), regs0)

\* the optional steps were chained in the order of the protocol, each at most once
InProtocolOrder(s) ==
    s \in { <<>>, <<"alarm">>, <<"pin">>, <<"debug">>,
            <<"alarm", "pin">>, <<"alarm", "debug">>, <<"pin", "debug">>,
            <<"alarm", "pin", "debug">> }

C8_ReturnOrReset ==
    [][ (pc = "waiting" /\ form = "builder" /\ pc' # "waiting")
        => IF builder.sleep_mode = "Standby"
           THEN pc' = "main" /\ woke' = "reset" /\ pc' # "returned"
           ELSE pc' = "returned" /\ woke' = "returned" /\ regs' = regs ]_vars

\* a Standby builder call has ended in a reset
C8_Witness ==
    /\ form = "builder"
    /\ woke = "reset"
    /\ pc = "main"
    /\ regs.sbf /\ regs.wuf

(* C9: enable_wakeup_pin, in every mode, first enables the power interface  *)
(* clock, then sets EWUP, and only then, and only in Sleep, StopRegulatorOn *)
(* and StopRegulatorLP, writes the EXTI0 vector enable and unpend, the      *)
(* line-0 mask bit, the line-0 rising-edge bit and the line-0 pending       *)
(* clear, in that order.                                                    *)
C9_PinOrder ==
    [][ Chains("pin")
        => /\ Appended =
                 << W("RCC_APB1ENR", "PWREN", 1), W("PWR_CSR", "EWUP", 1) >>
                 \o (IF builder.sleep_mode \in SleepOrStop
                     THEN << W("NVIC_ISER", "EXTI0", 1), W("NVIC_ICPR", "EXTI0", 1),
                             W(IF builder.sleep_mode_entry = "WFI"
                               THEN "EXTI_IMR" ELSE "EXTI_EMR", "MR0", 1),
                             W("EXTI_RTSR", "TR0", 1),
                             W("EXTI_PR", "PR0", 1) >>
                     ELSE <<>>)
           /\ regs'.pwren /\ regs'.ewup ]_vars

\* the pin armed in Sleep mode with the power interface clock off before
C9_Witness ==
    /\ pc = "built"
    /\ builder.sleep_mode = "Sleep"
    /\ builder.sleep_mode_entry = "WFI"
    /\ steps = <<"pin">>
    /\ ~regs0.pwren /\ regs.pwren /\ regs.ewup
    /\ "EXTI0" \in regs.nvic_en /\ "MR0" \in regs.imr

\* what enter is to have done once it has run: RTC accesses exactly when an
\* alarm was requested, the alarm set to now + secs (on u32), then the wait
EnterProgramsAlarm ==
    LET part == SelectSeq(trace, IsEnterAccess)
        now  == regs0.cnt
        wfx  == W("CPU", builder.sleep_mode_entry, 1)
    IN  /\ SubSeq(trace, Len(trace) - Len(part) + 1, Len(trace)) = part
        /\ IF InSeq("alarm", steps)
           THEN LET sum == Add32(now, builder.wakeup_alarm).value
                IN  /\ part = << W("RTC_CNTH", "read", now[1]),
                                 W("RTC_CNTL", "read", now[2]),
                                 W("RTC_CRL", "ALRF", 0),
                                 W("RTC_ALRH", "ALRH", sum[1]),
                                 W("RTC_ALRL", "ALRL", sum[2]), wfx >>
                    /\ regs.alr = sum
                    /\ ~regs.alrf
           ELSE /\ part = << wfx >>
                /\ regs.alr = regs0.alr /\ regs.alrf = regs0.alrf

(* C10: enter re-programs the RTC alarm exactly when enable_wakeup_alarm    *)
(* was chained: it reads the seconds counter, clears the alarm flag and     *)
(* sets the alarm to now + secs, directly before the wait instruction, in   *)
(* every mode; otherwise enter makes no RTC access and only waits.          *)
C10_Claim ==
    (form = "builder" /\ pc \in {"waiting", "panicked"}) => EnterProgramsAlarm

(* C10, the part that holds: the same for every call whose enter does not   *)
(* panic on the overflow of now + secs.                                     *)
C10_ExceptOverflow ==
    (form = "builder" /\ pc = "waiting") => EnterProgramsAlarm

-----------------------------------------------------------------------------
\* the signal that matches an entry type: an unmasked interrupt for WFI, a
\* latched event for WFE
Matching(sleep_mode_entry) ==
    IF sleep_mode_entry = "WFI" THEN "interrupt" ELSE "event"

(* C11: there is no software timeout. While a builder call is suspended in   *)
(* its wait instruction it writes no register and issues nothing more, and   *)
(* the wait ends only when the signal matching the entry type has occurred   *)
(* (an unmasked interrupt for WFI, a latched event for WFE): as long as no   *)
(* event is signalled, a WFE call stays suspended, whatever else happens.    *)
C11_NoTimeout ==
    [][ (pc = "waiting" /\ form = "builder")
        => /\ pc' # "waiting" => Matching(builder.sleep_mode_entry) \in signals
           /\ (builder.sleep_mode_entry = "WFE" /\ "event" \notin signals)
                 => pc' = "waiting"
           /\ pc' = "waiting" => (regs' = regs /\ trace' = trace) ]_vars

\* a WFE call still suspended after an interrupt was raised and no event signalled
C11_Witness ==
    /\ pc = "waiting"
    /\ form = "builder"
    /\ builder.sleep_mode_entry = "WFE"
    /\ issued = "WFE"
    /\ signals = {"interrupt"}

\* the mask bits the current call has written in the mask register reg
MaskWrites(reg) == {trace[i][2] : i \in {k \in 1..Len(trace) : trace[k][1] = reg}}

\* the wake lines the current call has armed: 17 for the alarm, 0 for the pin,
\* in Sleep and the two Stop modes
ArmedLines ==
    IF builder.sleep_mode \in SleepOrStop
    THEN (IF InSeq("alarm", steps) THEN {"MR17"} ELSE {})
         \cup (IF InSeq("pin", steps) THEN {"MR0"} ELSE {})
    ELSE {}

(* C12: within one builder call the wake path matches the wait instruction:  *)
(* when the call issues WFI, the mask bits of exactly the armed lines (17    *)
(* for the alarm, 0 for the pin) were written in the interrupt-mask register *)
(* and the event-mask register was not written and is as it was; when it    *)
(* issues WFE, the same with the two mask registers exchanged. No call       *)
(* writes both mask registers.                                               *)
C12_MaskMatchesWait ==
    /\ InBuilderCall =>
          (MaskWrites("EXTI_IMR") = {} \/ MaskWrites("EXTI_EMR") = {})
    /\ (form = "builder" /\ pc = "waiting") =>
          /\ issued = "WFI" =>
                /\ MaskWrites("EXTI_IMR") = ArmedLines
                /\ MaskWrites("EXTI_EMR") = {}
                /\ regs.imr = regs0.imr \cup ArmedLines
                /\ regs.emr = regs0.emr
          /\ issued = "WFE" =>
                /\ MaskWrites("EXTI_EMR") = ArmedLines
                /\ MaskWrites("EXTI_IMR") = {}
                /\ regs.emr = regs0.emr \cup ArmedLines
                /\ regs.imr = regs0.imr

\* a WFE Stop call that armed both lines and has issued its wait instruction
C12_Witness ==
    /\ form = "builder"
    /\ pc = "waiting"
    /\ issued = "WFE"
    /\ builder.sleep_mode = "StopRegulatorOn"
    /\ ArmedLines = {"MR0", "MR17"}
    /\ regs.emr = {"MR0", "MR17"}
    /\ regs.imr = {}

\* the optional steps of the set S chained in the order alarm, pin, debug
ordered_step_writes(sleep_mode, sleep_mode_entry, S) ==
    (IF "alarm" \in S THEN enable_wakeup_alarm_writes(sleep_mode, sleep_mode_entry) ELSE <<>>)
    \o (IF "pin" \in S THEN enable_wakeup_pin_writes(sleep_mode, sleep_mode_entry) ELSE <<>>)
    \o (IF "debug" \in S THEN enable_debug_writes ELSE <<>>)

\* the NVIC, EXTI, power-control and debug register values
WakeConfig(r) ==
    [nvic_en |-> r.nvic_en, nvic_pend |-> r.nvic_pend,
     imr |-> r.imr, emr |-> r.emr, rtsr |-> r.rtsr, pr |-> r.pr,
     sleepdeep |-> r.sleepdeep, pdds |-> r.pdds, lpds |-> r.lpds,
     sbf |-> r.sbf, wuf |-> r.wuf, ewup |-> r.ewup, pwren |-> r.pwren,
     dbg |-> r.dbg]

StepSet == {steps[i] : i \in 1..Len(steps)}

(* C13: the register state a builder call reaches before its wait            *)
(* instruction does not depend on the order in which the optional steps are  *)
(* chained: for every mode, entry and initial register state, the NVIC,      *)
(* EXTI, power-control and debug register values are those that new          *)
(* followed by the same set of steps in the order alarm, pin, debug yields.  *)
C13_OrderIndependent ==
    (form = "builder" /\ pc \in {"built", "waiting"}) =>
        WakeConfig(regs) =
            WakeConfig(ApplyAll(regs0,
                new_writes(builder.sleep_mode, regs0)
                \o ordered_step_writes(builder.sleep_mode, builder.sleep_mode_entry,
                                       StepSet)))

\* the three steps chained in the reverse order, up to the wait instruction
C13_Witness ==
    /\ form = "builder"
    /\ pc = "waiting"
    /\ steps = <<"debug", "pin", "alarm">>
    /\ builder.sleep_mode = "Sleep"
    /\ builder.sleep_mode_entry = "WFI"
    /\ regs.imr = {"MR0", "MR17"}
    /\ regs.pr = {} /\ regs0.pr = {"PR0", "PR17"}
    /\ regs.dbg = DbgBits

\* a <= b on u32
Leq32(a, b) == a[1] < b[1] \/ (a[1] = b[1] /\ a[2] <= b[2])

(* C14: for every seconds counter value now and every requested duration    *)
(* secs, the alarm compare value that enter programs equals now + secs       *)
(* without wrap-around or overflow, so the alarm is never earlier than now.  *)
C14_Claim ==
    (form = "builder" /\ pc \in {"waiting", "panicked"} /\ InSeq("alarm", steps)) =>
        LET now == regs0.cnt
            sum == Add32(now, builder.wakeup_alarm)
        IN  /\ ~sum.overflow
            /\ regs.alr = sum.value
            /\ Leq32(now, regs.alr)

(* C14, the part that holds: when now + secs fits in 32 bits, enter programs *)
(* exactly that sum; when it does not, enter panics before setting the       *)
(* alarm in a build with overflow checks, and programs the wrapped sum,      *)
(* which is earlier than now, in a build without.                            *)
C14_ExceptOverflow ==
    (form = "builder" /\ pc \in {"waiting", "panicked"} /\ InSeq("alarm", steps)) =>
        LET now == regs0.cnt
            sum == Add32(now, builder.wakeup_alarm)
        IN  IF ~sum.overflow
            THEN pc = "waiting" /\ regs.alr = sum.value /\ Leq32(now, regs.alr)
            ELSE IF overflow_checks
                 THEN pc = "panicked" /\ regs.alr = regs0.alr
                 ELSE pc = "waiting" /\ regs.alr = sum.value /\ ~Leq32(now, regs.alr)

\* this step is a call of SleepModeBuilder::new
IsNew == pc # "built" /\ pc' = "built"

\* this step is a call of the one-shot form
IsOneShot == pc # "waiting" /\ pc' = "waiting" /\ form' = "monolithic"

\* this step is the reset of the MCU that ends a Standby wait
IsReset == pc = "waiting" /\ woke' = "reset"

(* C15: SleepModeBuilder::new with mode Sleep or Standby leaves LPDS as it   *)
(* was, and no builder step nor enter writes it: from one reset of the MCU   *)
(* to the next, every step of the builder form leaves LPDS unchanged, except *)
(* new(StopRegulatorOn), which clears it, and new(StopRegulatorLP), which    *)
(* sets it. LPDS therefore is what the most recent of these two wrote, or    *)
(* its initial value.                                                        *)
C15_LpdsFrame ==
    [][ IF IsNew
        THEN regs'.lpds = CASE builder'.sleep_mode = "StopRegulatorOn" -> FALSE
                            [] builder'.sleep_mode = "StopRegulatorLP" -> TRUE
                            [] OTHER -> regs.lpds
        ELSE (IsOneShot \/ IsReset) \/ regs'.lpds = regs.lpds ]_vars

\* a Standby builder after a StopRegulatorLP call: LPDS is still set
C15_Witness ==
    /\ form = "builder"
    /\ pc = "waiting"
    /\ builder.sleep_mode = "Standby"
    /\ regs0.lpds
    /\ regs.lpds
    /\ regs.pdds

\* every arming bit set in r1 is set in r2: the NVIC vector enables, the EXTI
\* interrupt-mask, event-mask and rising-edge bits, EWUP, the debug bits
Keeps(r1, r2) ==
    /\ r1.nvic_en \subseteq r2.nvic_en
    /\ r1.imr \subseteq r2.imr
    /\ r1.emr \subseteq r2.emr
    /\ r1.rtsr \subseteq r2.rtsr
    /\ r1.ewup => r2.ewup
    /\ r1.dbg \subseteq r2.dbg

(* C16: the controller never disarms anything. From one reset of the MCU to  *)
(* the next, no step of an entry call clears an NVIC vector enable, an EXTI  *)
(* interrupt-mask, event-mask or rising-edge bit, EWUP or a debug-retention  *)
(* bit, so what an earlier call has armed is still armed all through a       *)
(* later call, whether that call requests it or not.                         *)
C16_NeverDisarms ==
    [][ ~IsReset
        => /\ Keeps(regs, regs')
           /\ pc' \in {"built", "waiting", "panicked"} => Keeps(regs0', regs') ]_vars

\* a WFE call with the alarm after a WFI call with the alarm and the pin: both
\* mask registers hold bit 17, and line 0 is still armed though not requested
C16_Witness ==
    /\ form = "builder"
    /\ pc = "waiting"
    /\ issued = "WFE"
    /\ steps = <<"alarm">>
    /\ regs0.imr = {"MR0", "MR17"}
    /\ regs0.emr = {}
    /\ regs.imr = {"MR0", "MR17"}
    /\ regs.emr = {"MR17"}
    /\ regs.ewup
    /\ "EXTI0" \in regs.nvic_en

====
